---- MODULE Spec2Model ----
(***************************************************************************)
(* Model of the stock/sales ledger of src/app.py (Flask + SQLAlchemy on    *)
(* SQLite).                                                                *)
(*                                                                         *)
(* The state is the content of the five tables the handlers touch and, for *)
(* every worker thread, the position of the request it is serving.  A      *)
(* handler is split exactly where it talks to the database: its SELECTs    *)
(* (each runs outside a transaction, pysqlite opens one only before the    *)
(* first INSERT/UPDATE/DELETE), its db.session.commit() and the second     *)
(* commit made by log_activity().  Values a handler computes in Python     *)
(* from what it has read are kept in the request and written back as       *)
(* absolute values, as SQLAlchemy's UPDATE ... SET col = ? does.           *)
(*                                                                         *)
(* Quantities and amounts are integers: the Float columns are exact on     *)
(* them, so the arithmetic of the model is the arithmetic of the code on   *)
(* these inputs.  Binary rounding of fractional quantities is not          *)
(* modelled.  The JSON text of an audit payload is kept as the structured  *)
(* value it encodes.                                                       *)
(***************************************************************************)
EXTENDS Integers, Sequences, FiniteSets, TLC

\* ------------------------------------------------------------- bounds
MaxId == 2
MaxCustomerId == 1
MaxSaleId == 3
MaxRollId == 3
MaxLog == 3
MaxSeqLog == 5
MaxSaleLog == 4
MaxTime == 1
MaxFail == 1

Threads == {1, 2}
SeqThreads == {1}

\* ------------------------------------------------------------- inputs
NULL == 0
\* an optional JSON key: <<>> when the key is missing, <<v>> when it holds v
Absent == <<>>
Optional(S) == {Absent} \cup { <<v>> : v \in S }
MaterialKeys ==
    { [name |-> "n1", type |-> "enli", supplier |-> "s1"],
      [name |-> "n1", type |-> "enli", supplier |-> "s2"],
      [name |-> "n2", type |-> "enli", supplier |-> "s1"] }
RollLookups == { [name |-> k.name, type |-> k.type] : k \in MaterialKeys }
RollBatches == { <<1>>, <<1, 2>> }
RollQuantities == {1, 2}
CustomerNames == {"c1", "c2"}
Quantities == {-2, 0, 1, 2}
Prices == {1}
NewPrices == {1, 2}
AmountsDue == {1}

VARIABLES
    materials,   \* table material:      id -> [name, type, supplier, total_quantity]
    rolls,       \* table material_roll: id -> [material_id, quantity]
    customers,   \* table customer:      id -> [name, debt]
    sales,       \* table sale:          id -> [material_id, customer_id, quantity_sold, price]
    logs,        \* table activity_log, in insertion (id) order
    now,         \* datetime.utcnow()
    lock,        \* thread holding SQLite's write lock in an open transaction, or 0
    req,         \* per thread: the request being served
    fails,       \* storage failures so far
    budget,      \* requests the model still lets past their checks
    credited,    \* history: customer id -> amount_due committed by add_sale since its creation
    life,        \* history: sale id -> [mid, before, clean] of its running lifecycle
    ended        \* history: the lifecycles closed by delete_sale

vars == <<materials, rolls, customers, sales, logs, now, lock, req, fails, budget,
          credited, life, ended>>
db == <<materials, rolls, customers, sales>>
hist == <<credited, life, ended>>

\* ------------------------------------------------------------- tables
Empty == [i \in {} |-> 0]
Max(S) == CHOOSE x \in S : \A y \in S : y <= x
Min(S) == CHOOSE x \in S : \A y \in S : x <= y
\* INTEGER PRIMARY KEY without AUTOINCREMENT: the new rowid is max(rowid) + 1
NextId(tbl) == IF DOMAIN tbl = {} THEN 1 ELSE Max(DOMAIN tbl) + 1
Insert(tbl, id, row) == [i \in DOMAIN tbl \cup {id} |-> IF i = id THEN row ELSE tbl[i]]
Remove(tbl, ids) == [i \in DOMAIN tbl \ ids |-> tbl[i]]
MaterialRoll(mid, q) == [material_id |-> mid, quantity |-> q]
\* only the first quantity of the batch is stored
InsertAll_FirstOnly(tbl, mid, qs) ==
    IF qs = <<>> THEN tbl ELSE Insert(tbl, NextId(tbl), MaterialRoll(mid, Head(qs)))

\* db.session.bulk_save_objects(roll_entries): one INSERT per quantity, in order
RECURSIVE InsertAll(_, _, _)
InsertAll(tbl, mid, qs) ==
    IF qs = <<>> THEN tbl
    ELSE InsertAll(Insert(tbl, NextId(tbl), MaterialRoll(mid, Head(qs))),
                   mid, Tail(qs))

Material(k) ==
    [name |-> k.name, type |-> k.type, supplier |-> k.supplier, total_quantity |-> 0]
Customer(n) == [name |-> n, debt |-> 0]
Sale(mid, cid, q, p) ==
    [material_id |-> mid, customer_id |-> cid, quantity_sold |-> q, price |-> p]
ActivityLog(e, ts) ==
    [action_type |-> e.action_type, table_name |-> e.table_name,
     record_id |-> e.record_id, changes |-> e.changes, timestamp |-> ts]
Entry(a, tn, rid, ch) ==
    [action_type |-> a, table_name |-> tn, record_id |-> rid, changes |-> ch]

\* ------------------------------------------------------------- requests
None == [none |-> TRUE]
Idle == [pc |-> "idle", op |-> "-", a |-> None, l |-> None, status |-> "-"]
Request(p, o, args, loc) == [pc |-> p, op |-> o, a |-> args, l |-> loc, status |-> "-"]
Response(o, args, st) == [pc |-> "done", op |-> o, a |-> args, l |-> None, status |-> st]

AtIdle(t) == req[t].pc = "idle" /\ budget > 0
\* a request that is refused by its checks (404, 400) costs nothing
Admit(t) == budget' = IF req'[t].pc = "done" THEN budget ELSE budget - 1
At(t, p, o) == req[t].pc = p /\ req[t].op = o
\* a write statement needs SQLite's write lock
CanWrite(t) == lock \in {0, t}
Goto(t, r) == req' = [req EXCEPT ![t] = r]
\* the pending log_activity call of a handler whose commit went through
ToLog(t, e, touched) ==
    Goto(t, [req[t] EXCEPT !.pc = "log", !.l = [log |-> e, touched |-> touched]])
\* an exception inside the handler: the session is rolled back, the answer is a 500
Abort(t) ==
    /\ Goto(t, Response(req[t].op, None, "500"))
    /\ lock' = IF lock = t THEN 0 ELSE lock

InitWith(n) ==
    /\ materials = Empty
    /\ rolls = Empty
    /\ customers = Empty
    /\ sales = Empty
    /\ logs = <<>>
    /\ now = 0
    /\ lock = 0
    /\ req = [t \in Threads |-> Idle]
    /\ fails = 0
    /\ budget = n
    /\ credited = Empty
    /\ life = Empty
    /\ ended = {}

\* ------------------------------------------------------------- audit log
\* the new entry overwrites the newest row instead of being added
LogAppend_Overwrites(lg, e, ts) ==
    IF lg = <<>> THEN <<ActivityLog(e, ts)>> ELSE [lg EXCEPT ![Len(lg)] = ActivityLog(e, ts)]

LogAppend(lg, e, ts) == Append(lg, ActivityLog(e, ts))

\* log_activity: one INSERT into activity_log and its own commit; the handler then
\* returns its answer (200 or 201) and the worker is free again
log_activity(t) ==
    /\ req[t].pc = "log"
    /\ CanWrite(t)
    /\ logs' = LogAppend(logs, req[t].l.log, now)
    /\ Goto(t, Idle)
    /\ UNCHANGED <<db, now, lock, fails, hist>>
    /\ UNCHANGED budget

\* the commit of log_activity fails: the handler ends in a 500, the commit
\* the handler made before it stays
log_failure(t) ==
    /\ req[t].pc = "log"
    /\ fails < MaxFail
    /\ fails' = fails + 1
    /\ Goto(t, [req[t] EXCEPT !.pc = "done", !.status = "500"])
    /\ UNCHANGED <<db, logs, now, lock, hist>>
    /\ UNCHANGED budget

\* db.session.commit() of a handler fails: nothing of its transaction is applied
commit_failure(t) ==
    /\ req[t].pc = "commit"
    /\ fails < MaxFail
    /\ fails' = fails + 1
    /\ Abort(t)
    /\ UNCHANGED <<db, logs, now, hist>>
    /\ UNCHANGED budget

\* the error answer is written to the audit log as well
Return_Audited(t) ==
    /\ req[t].pc = "done"
    /\ logs' = LogAppend(logs, Entry("ERROR", "-", 0, req[t].status), now)
    /\ Goto(t, Idle)
    /\ UNCHANGED <<db, now, lock, fails, hist>>
    /\ UNCHANGED budget

\* an error response (400, 404, 500) has been sent, the worker is free again
Return(t) ==
    /\ req[t].pc = "done"
    /\ Goto(t, Idle)
    /\ UNCHANGED <<db, logs, now, lock, fails, hist>>
    /\ UNCHANGED budget

Tick ==
    /\ now < MaxTime
    /\ now' = now + 1
    /\ UNCHANGED <<db, logs, lock, req, fails, hist>>
    /\ UNCHANGED budget

\* ------------------------------------------------------------- materials
MaterialsWith(k) ==
    { m \in DOMAIN materials :
        /\ materials[m].name = k.name
        /\ materials[m].type = k.type
        /\ materials[m].supplier = k.supplier }

\* the duplicate check of add_material
Existing(k) == MaterialsWith(k) # {}

add_material(t) ==
    /\ AtIdle(t)
    /\ \E k \in MaterialKeys :
         LET args == [key |-> k] IN
         IF Existing(k)
         THEN Goto(t, Response("add_material", args, "400"))
         ELSE Goto(t, Request("commit", "add_material", args, None))
    /\ UNCHANGED <<db, logs, now, lock, fails, hist>>
    /\ Admit(t)

add_material_commit(t) ==
    /\ At(t, "commit", "add_material")
    /\ CanWrite(t)
    /\ LET id == NextId(materials) IN
         /\ id <= MaxId
         /\ materials' = Insert(materials, id, Material(req[t].a.key))
         /\ ToLog(t, Entry("ADD", "materials", id, req[t].a.key),
                  [table |-> "materials", ids |-> {id}])
    /\ UNCHANGED <<rolls, customers, sales, logs, now, lock, fails, hist>>
    /\ UNCHANGED budget

\* ------------------------------------------------------------- rolls
\* Material.query.filter_by(name=..., type=...).first(): the row SQLite's table
\* scan meets first, the one with the lowest rowid
FirstMaterial(k) ==
    LET found == { m \in DOMAIN materials :
                     materials[m].name = k.name /\ materials[m].type = k.type }
    IN  IF found = {} THEN NULL ELSE Min(found)

add_rolls(t) ==
    /\ AtIdle(t)
    /\ \E k \in RollLookups, qs \in RollBatches :
         LET args == [key |-> k, quantities |-> qs]
             mid == FirstMaterial(k)
         IN  IF mid = NULL
             THEN Goto(t, Response("add_rolls", None, "404"))
             ELSE Goto(t, Request("commit", "add_rolls", args, [mid |-> mid]))
    /\ UNCHANGED <<db, logs, now, lock, fails, hist>>
    /\ Admit(t)

\* the id log_activity is given by add_rolls
RollsLogId(mid, created) == mid

add_rolls_commit(t) ==
    /\ At(t, "commit", "add_rolls")
    /\ CanWrite(t)
    /\ LET mid == req[t].l.mid
           qs == req[t].a.quantities
           created == NextId(rolls) .. (NextId(rolls) + Len(qs) - 1)
       IN  /\ NextId(rolls) + Len(qs) - 1 <= MaxRollId
           /\ rolls' = InsertAll(rolls, mid, qs)
           /\ ToLog(t, Entry("ADD", "material_rolls", RollsLogId(mid, created), qs),
                    [table |-> "material_rolls", ids |-> created])
    /\ UNCHANGED <<materials, customers, sales, logs, now, lock, fails, hist>>
    /\ UNCHANGED budget

RollsOf(mid) == { r \in DOMAIN rolls : rolls[r].material_id = mid }

\* the cascade is forgotten
CascadeRolls_None(mid) == {}

\* what delete_material removes from material_roll
CascadeRolls(mid) == RollsOf(mid)

\* history: a material row deleted or created spoils the lifecycles running on that id
Spoil(lf, mid, except) ==
    [s \in DOMAIN lf |->
        IF lf[s].mid = mid /\ s \notin except THEN [lf[s] EXCEPT !.clean = FALSE] ELSE lf[s]]

delete_material(t) ==
    /\ AtIdle(t)
    /\ \E id \in 1..MaxId :
         LET args == [id |-> id] IN
         IF id \notin DOMAIN materials
         THEN Goto(t, Response("delete_material", None, "404"))
         ELSE Goto(t, Request("commit", "delete_material", args,
                              [name |-> materials[id].name]))
    /\ UNCHANGED <<db, logs, now, lock, fails, hist>>
    /\ Admit(t)

\* Material.sales (the backref of Sale.material): the sales a material is parent of
SalesOf(mid) == { s \in DOMAIN sales : sales[s].material_id = mid }

\* DELETE FROM material_roll WHERE material_id = ? opens the transaction.  The flush
\* of db.session.delete(material) then loads the material's rolls (none are left) and
\* sales, and detaches each sale by UPDATE sale SET material_id = NULL, which the NOT
\* NULL column refuses (IntegrityError); last comes DELETE FROM material WHERE
\* id = ?, which raises StaleDataError when it matches no row.  An exception rolls
\* the whole transaction back.
delete_material_commit(t) ==
    /\ At(t, "commit", "delete_material")
    /\ CanWrite(t)
    /\ LET id == req[t].a.id IN
         IF id \notin DOMAIN materials \/ SalesOf(id) # {}
         THEN /\ Abort(t)
              /\ UNCHANGED <<db, life>>
         ELSE /\ rolls' = Remove(rolls, CascadeRolls(id))
              /\ materials' = Remove(materials, {id})
              /\ life' = Spoil(life, id, {})
              /\ ToLog(t, Entry("DELETE", "materials", id, req[t].l.name),
                       [table |-> "materials", ids |-> {id}, rolls |-> RollsOf(id)])
              /\ UNCHANGED <<customers, sales, lock>>
    /\ UNCHANGED <<logs, now, fails, credited, ended>>
    /\ UNCHANGED budget

delete_roll(t) ==
    /\ AtIdle(t)
    /\ \E id \in 1..MaxRollId :
         LET args == [id |-> id] IN
         IF id \notin DOMAIN rolls
         THEN Goto(t, Response("delete_roll", None, "404"))
         ELSE Goto(t, Request("commit", "delete_roll", args, [deleted |-> rolls[id]]))
    /\ UNCHANGED <<db, logs, now, lock, fails, hist>>
    /\ Admit(t)

delete_roll_commit(t) ==
    /\ At(t, "commit", "delete_roll")
    /\ CanWrite(t)
    /\ LET id == req[t].a.id IN
         IF id \notin DOMAIN rolls
         THEN /\ Abort(t)
              /\ UNCHANGED rolls
         ELSE /\ rolls' = Remove(rolls, {id})
              /\ ToLog(t, Entry("DELETE", "material_rolls", id, req[t].l.deleted),
                       [table |-> "material_rolls", ids |-> {id}])
              /\ UNCHANGED lock
    /\ UNCHANGED <<materials, customers, sales, logs, now, fails, hist>>
    /\ UNCHANGED budget

update_roll(t) ==
    /\ AtIdle(t)
    /\ \E id \in 1..MaxRollId, q \in RollQuantities :
         LET args == [id |-> id, quantity |-> q] IN
         IF id \notin DOMAIN rolls
         THEN Goto(t, Response("update_roll", None, "404"))
         ELSE Goto(t, Request("commit", "update_roll", args,
                              [old_quantity |-> rolls[id].quantity]))
    /\ UNCHANGED <<db, logs, now, lock, fails, hist>>
    /\ Admit(t)

\* UPDATE material_roll SET quantity = ? WHERE id = ?, emitted only when the value
\* differs from the one loaded
update_roll_commit(t) ==
    /\ At(t, "commit", "update_roll")
    /\ CanWrite(t)
    /\ LET id == req[t].a.id
           q == req[t].a.quantity
           old == req[t].l.old_quantity
           e == Entry("UPDATE", "material_rolls", id, [before |-> old, after |-> q])
           touched == [table |-> "material_rolls", ids |-> {id}]
       IN  IF q = old
           THEN /\ ToLog(t, e, touched)
                /\ UNCHANGED <<rolls, lock>>
           ELSE IF id \notin DOMAIN rolls
           THEN /\ Abort(t)
                /\ UNCHANGED rolls
           ELSE /\ rolls' = [rolls EXCEPT ![id].quantity = q]
                /\ ToLog(t, e, touched)
                /\ UNCHANGED lock
    /\ UNCHANGED <<materials, customers, sales, logs, now, fails, hist>>
    /\ UNCHANGED budget

\* ------------------------------------------------------------- customers
\* no SELECT precedes the INSERT: the handler is one step up to its commit
add_customer(t) ==
    /\ AtIdle(t)
    /\ CanWrite(t)
    /\ \E n \in CustomerNames :
         LET id == NextId(customers) IN
         /\ id <= MaxCustomerId
         /\ customers' = Insert(customers, id, Customer(n))
         /\ credited' = Insert(credited, id, 0)
         /\ Goto(t, [pc |-> "log", op |-> "add_customer", a |-> [name |-> n],
                     l |-> [log |-> Entry("ADD", "customers", id, n),
                            touched |-> [table |-> "customers", ids |-> {id}]],
                     status |-> "-"])
    /\ UNCHANGED <<materials, rolls, sales, logs, now, lock, fails, life, ended>>
    /\ Admit(t)

edit_customer(t) ==
    /\ AtIdle(t)
    /\ \E id \in 1..MaxCustomerId, n \in CustomerNames :
         LET args == [id |-> id, name |-> n] IN
         IF id \notin DOMAIN customers
         THEN Goto(t, Response("edit_customer", None, "404"))
         ELSE Goto(t, Request("commit", "edit_customer", args, [old_data |-> customers[id]]))
    /\ UNCHANGED <<db, logs, now, lock, fails, hist>>
    /\ Admit(t)

\* the columns edit_customer writes: name (and contact), never debt
EditedCustomer(row, n) == [row EXCEPT !.name = n]

edit_customer_commit(t) ==
    /\ At(t, "commit", "edit_customer")
    /\ CanWrite(t)
    /\ LET id == req[t].a.id
           n == req[t].a.name
           old == req[t].l.old_data
           e == Entry("UPDATE", "customers", id, [before |-> old, after |-> n])
           touched == [table |-> "customers", ids |-> {id}]
       IN  IF n = old.name
           THEN /\ ToLog(t, e, touched)
                /\ UNCHANGED <<customers, lock>>
           ELSE IF id \notin DOMAIN customers
           THEN /\ Abort(t)
                /\ UNCHANGED customers
           ELSE /\ customers' = [customers EXCEPT ![id] = EditedCustomer(@, n)]
                /\ ToLog(t, e, touched)
                /\ UNCHANGED lock
    /\ UNCHANGED <<materials, rolls, sales, logs, now, fails, hist>>
    /\ UNCHANGED budget

delete_customer(t) ==
    /\ AtIdle(t)
    /\ \E id \in 1..MaxCustomerId :
         LET args == [id |-> id] IN
         IF id \notin DOMAIN customers
         THEN Goto(t, Response("delete_customer", None, "404"))
         ELSE Goto(t, Request("flush", "delete_customer", args,
                              [deleted |-> customers[id].name, purchases |-> {}]))
    /\ UNCHANGED <<db, logs, now, lock, fails, hist>>
    /\ Admit(t)

\* Customer.purchases (the backref of Sale.customer): the sales a customer is parent of
PurchasesOf(cid) == { s \in DOMAIN sales : sales[s].customer_id = cid }

\* the purchases are deleted with their customer
Detached_Removed(tbl, ids) == [s \in DOMAIN tbl \ ids |-> tbl[s]]

\* UPDATE sale SET customer_id = NULL WHERE id = ?, for each of the given sales
Detached(tbl, ids) ==
    [s \in DOMAIN tbl |-> IF s \in ids THEN [tbl[s] EXCEPT !.customer_id = NULL] ELSE tbl[s]]

\* the flush of db.session.delete(customer) first loads the customer's purchases, by
\* a SELECT that precedes the transaction
delete_customer_flush(t) ==
    /\ At(t, "flush", "delete_customer")
    /\ Goto(t, [req[t] EXCEPT !.pc = "commit", !.l.purchases = PurchasesOf(req[t].a.id)])
    /\ UNCHANGED <<db, logs, now, lock, fails, hist>>
    /\ UNCHANGED budget

\* the purchases loaded are detached (customer_id is nullable), then DELETE FROM
\* customer WHERE id = ?; a statement that matches no row raises StaleDataError
delete_customer_commit(t) ==
    /\ At(t, "commit", "delete_customer")
    /\ CanWrite(t)
    /\ LET id == req[t].a.id
           purchases == req[t].l.purchases
       IN  IF id \notin DOMAIN customers \/ ~(purchases \subseteq DOMAIN sales)
           THEN /\ Abort(t)
                /\ UNCHANGED <<customers, sales, credited>>
           ELSE /\ sales' = Detached(sales, purchases)
                /\ customers' = Remove(customers, {id})
                /\ credited' = Remove(credited, {id})
                /\ ToLog(t, Entry("DELETE", "customers", id, req[t].l.deleted),
                         [table |-> "customers", ids |-> {id}, purchases |-> purchases])
                /\ UNCHANGED lock
    /\ UNCHANGED <<materials, rolls, logs, now, fails, life, ended>>
    /\ UNCHANGED budget

\* ------------------------------------------------------------- sales
\* the comparison is off by one
InsufficientStock_OffByOne(tq, q) == tq + 1 < q

\* material.total_quantity < data["quantity_sold"]
InsufficientStock(tq, q) == tq < q
\* the quantity is deducted twice
Deducted_Twice(tq, q) == tq - (2 * q)

\* material.total_quantity -= data["quantity_sold"]
Deducted(tq, q) == tq - q
\* the amount due is not added
Indebted_Forgotten(debt, due) == debt

\* customer.debt += data["amount_due"]
Indebted(debt, due) == debt + due
\* the old quantity is not given back
Adjusted_NoRevert(tq, old, new) == tq - new

\* total_quantity += old_quantity; total_quantity -= sale.quantity_sold
Adjusted(tq, old, new) == (tq + old) - new
\* the quantity is deducted once more instead of given back
Restored_Deducts(tq, q) == tq - q

\* sale.material.total_quantity += sale.quantity_sold
Restored(tq, q) == tq + q

add_sale(t) ==
    /\ AtIdle(t)
    /\ \E mid \in 1..MaxId, cid \in {NULL} \cup (1..MaxCustomerId), q \in Quantities,
          p \in Prices, due \in Optional(AmountsDue) :
         LET args == [material_id |-> mid, customer_id |-> cid, quantity_sold |-> q,
                      price |-> p, amount_due |-> due]
             pays == cid \in DOMAIN customers /\ due # Absent
         IN  IF mid \notin DOMAIN materials
             THEN Goto(t, Response("add_sale", None, "404"))
             ELSE IF InsufficientStock(materials[mid].total_quantity, q)
             THEN Goto(t, Response("add_sale", args, "400"))
             ELSE Goto(t, Request("commit", "add_sale", args,
                     [old_tq |-> materials[mid].total_quantity,
                      total_quantity |-> Deducted(materials[mid].total_quantity, q),
                      pays |-> pays,
                      old_debt |-> IF pays THEN customers[cid].debt ELSE 0,
                      debt |-> IF pays THEN Indebted(customers[cid].debt, due[1]) ELSE 0]))
    /\ UNCHANGED <<db, logs, now, lock, fails, hist>>
    /\ Admit(t)

\* UPDATE material SET total_quantity = ?, INSERT INTO sale, UPDATE customer SET
\* debt = ? in one transaction; an UPDATE is emitted only for a changed value and
\* raises StaleDataError when its row is gone
add_sale_commit(t) ==
    /\ At(t, "commit", "add_sale")
    /\ CanWrite(t)
    /\ LET a == req[t].a
           l == req[t].l
           mid == a.material_id
           cid == a.customer_id
           sid == NextId(sales)
           writesStock == l.total_quantity # l.old_tq
           writesDebt == l.pays /\ l.debt # l.old_debt
       IN  IF \/ writesStock /\ mid \notin DOMAIN materials
              \/ writesDebt /\ cid \notin DOMAIN customers
           THEN /\ Abort(t)
                /\ UNCHANGED <<db, hist>>
           ELSE /\ sid <= MaxSaleId
                /\ materials' = IF writesStock
                                THEN [materials EXCEPT ![mid].total_quantity = l.total_quantity]
                                ELSE materials
                /\ sales' = Insert(sales, sid, Sale(mid, cid, a.quantity_sold, a.price))
                /\ customers' = IF writesDebt
                                THEN [customers EXCEPT ![cid].debt = l.debt]
                                ELSE customers
                /\ credited' = IF writesDebt
                               THEN [credited EXCEPT ![cid] = @ + a.amount_due[1]]
                               ELSE credited
                /\ life' = Insert(Spoil(life, mid, {}), sid,
                                  [mid |-> mid, before |-> l.old_tq, updates |-> 0,
                                   clean |-> mid \in DOMAIN materials
                                             /\ materials[mid].total_quantity = l.old_tq])
                /\ ToLog(t, Entry("SALE", "sales", sid,
                                  <<mid, cid, a.quantity_sold, a.price>>),
                         [table |-> "sales", ids |-> {sid}])
                /\ UNCHANGED <<rolls, lock, ended>>
    /\ UNCHANGED <<logs, now, fails>>
    /\ UNCHANGED budget

edit_sale(t) ==
    /\ AtIdle(t)
    /\ \E sid \in 1..MaxSaleId, q \in Optional(Quantities), p \in Optional(NewPrices) :
         LET args == [id |-> sid, quantity_sold |-> q, price |-> p] IN
         IF sid \notin DOMAIN sales
         THEN Goto(t, Response("edit_sale", None, "404"))
         ELSE Goto(t, Request("flush", "edit_sale", args,
                 [old_quantity |-> sales[sid].quantity_sold,
                  old_price |-> sales[sid].price,
                  material_id |-> sales[sid].material_id,
                  \* data.get("quantity_sold", sale.quantity_sold), data.get("price", ...)
                  quantity_sold |-> IF q = Absent THEN sales[sid].quantity_sold ELSE q[1],
                  price |-> IF p = Absent THEN sales[sid].price ELSE p[1],
                  total_quantity |-> 0]))
    /\ UNCHANGED <<db, logs, now, lock, fails, hist>>
    /\ Admit(t)

\* the sale has a changed column: the session has something to flush
Dirty(l) == l.quantity_sold # l.old_quantity \/ l.price # l.old_price

\* sale.material: the lazy load autoflushes first.  A dirty sale is written by an
\* UPDATE that opens the transaction and takes the write lock (StaleDataError when
\* the row is gone); then the material is read, and None has no total_quantity.
edit_sale_flush(t) ==
    /\ At(t, "flush", "edit_sale")
    /\ LET l == req[t].l
           sid == req[t].a.id
           mid == l.material_id
       IN  /\ Dirty(l) => lock = 0
           /\ IF (Dirty(l) /\ sid \notin DOMAIN sales) \/ mid \notin DOMAIN materials
              THEN /\ Goto(t, Response("edit_sale", None, "500"))
                   /\ UNCHANGED lock
              ELSE /\ lock' = IF Dirty(l) THEN t ELSE lock
                   /\ Goto(t, [req[t] EXCEPT !.pc = "commit",
                                 !.l.total_quantity =
                                     Adjusted(materials[mid].total_quantity,
                                              l.old_quantity, l.quantity_sold)])
    /\ UNCHANGED <<db, logs, now, fails, hist>>
    /\ UNCHANGED budget

edit_sale_commit(t) ==
    /\ At(t, "commit", "edit_sale")
    /\ CanWrite(t)
    /\ LET a == req[t].a
           l == req[t].l
           sid == a.id
           mid == l.material_id
       IN  /\ sales' = IF Dirty(l)
                       THEN [sales EXCEPT ![sid].quantity_sold =
                                              IF l.quantity_sold # l.old_quantity
                                              THEN l.quantity_sold ELSE @,
                                          ![sid].price =
                                              IF l.price # l.old_price THEN l.price ELSE @]
                       ELSE sales
           /\ materials' = IF l.quantity_sold # l.old_quantity
                           THEN [materials EXCEPT ![mid].total_quantity = l.total_quantity]
                           ELSE materials
           /\ life' = IF sid \in DOMAIN life
                      THEN [Spoil(life, mid, {sid}) EXCEPT ![sid].updates = @ + 1]
                      ELSE Spoil(life, mid, {sid})
           /\ lock' = 0
           /\ Goto(t, [req[t] EXCEPT !.pc = "log",
                         !.l = [log |-> Entry("UPDATE", "sales", sid,
                                     [before |-> <<l.old_quantity, l.old_price>>,
                                      after |-> <<a.quantity_sold, a.price>>]),
                                touched |-> [table |-> "sales", ids |-> {sid}]]])
    /\ UNCHANGED <<rolls, customers, logs, now, fails, credited, ended>>
    /\ UNCHANGED budget

\* the sale and its material are read by two SELECTs with nothing to flush between
delete_sale(t) ==
    /\ AtIdle(t)
    /\ \E sid \in 1..MaxSaleId :
         LET args == [id |-> sid] IN
         IF sid \notin DOMAIN sales
         THEN Goto(t, Response("delete_sale", None, "404"))
         ELSE IF sales[sid].material_id \notin DOMAIN materials
         THEN Goto(t, Response("delete_sale", None, "500"))
         ELSE LET mid == sales[sid].material_id IN
              Goto(t, Request("commit", "delete_sale", args,
                 [deleted |-> sales[sid],
                  material_id |-> mid,
                  old_tq |-> materials[mid].total_quantity,
                  total_quantity |-> Restored(materials[mid].total_quantity,
                                              sales[sid].quantity_sold)]))
    /\ UNCHANGED <<db, logs, now, lock, fails, hist>>
    /\ Admit(t)

\* UPDATE material SET total_quantity = ?, DELETE FROM sale WHERE id = ?
delete_sale_commit(t) ==
    /\ At(t, "commit", "delete_sale")
    /\ CanWrite(t)
    /\ LET l == req[t].l
           sid == req[t].a.id
           mid == l.material_id
           writesStock == l.total_quantity # l.old_tq
       IN  IF (writesStock /\ mid \notin DOMAIN materials) \/ sid \notin DOMAIN sales
           THEN /\ Abort(t)
                /\ UNCHANGED <<db, hist>>
           ELSE /\ materials' = IF writesStock
                                THEN [materials EXCEPT ![mid].total_quantity = l.total_quantity]
                                ELSE materials
                /\ sales' = Remove(sales, {sid})
                /\ life' = Remove(Spoil(life, mid, {sid}), {sid})
                /\ ended' = IF sid \in DOMAIN life /\ life[sid].clean
                            THEN ended \cup {[before |-> life[sid].before,
                                              after |-> materials'[mid].total_quantity,
                                              updates |-> life[sid].updates]}
                            ELSE ended
                /\ ToLog(t, Entry("DELETE", "sales", sid, l.deleted),
                         [table |-> "sales", ids |-> {sid}])
                /\ UNCHANGED <<rolls, customers, lock, credited>>
    /\ UNCHANGED <<logs, now, fails>>
    /\ UNCHANGED budget

\* ------------------------------------------------------------- the system
Init == InitWith(MaxLog)

\* requests served by concurrent worker threads; storage may fail
Next ==
    \/ \E t \in Threads :
         \/ add_material(t)
         \/ add_rolls(t)
         \/ delete_material(t)
         \/ delete_roll(t)
         \/ update_roll(t)
         \/ add_customer(t)
         \/ edit_customer(t)
         \/ delete_customer(t)
         \/ add_sale(t)
         \/ edit_sale(t)
         \/ delete_sale(t)
         \/ add_material_commit(t)
         \/ add_rolls_commit(t)
         \/ delete_material_commit(t)
         \/ delete_roll_commit(t)
         \/ update_roll_commit(t)
         \/ edit_customer_commit(t)
         \/ delete_customer_flush(t)
         \/ delete_customer_commit(t)
         \/ add_sale_commit(t)
         \/ edit_sale_flush(t)
         \/ edit_sale_commit(t)
         \/ delete_sale_commit(t)
         \/ log_activity(t)
         \/ log_failure(t)
         \/ commit_failure(t)
         \/ Return(t)
    \/ Tick

Spec == Init /\ [][Next]_vars

\* requests served one after the other by one worker; storage does not fail
SeqInit == InitWith(MaxSeqLog)

SeqNext ==
    \E t \in SeqThreads :
         \/ add_material(t)
         \/ add_rolls(t)
         \/ delete_material(t)
         \/ delete_roll(t)
         \/ update_roll(t)
         \/ add_customer(t)
         \/ edit_customer(t)
         \/ delete_customer(t)
         \/ add_sale(t)
         \/ edit_sale(t)
         \/ delete_sale(t)
         \/ add_material_commit(t)
         \/ add_rolls_commit(t)
         \/ delete_material_commit(t)
         \/ delete_roll_commit(t)
         \/ update_roll_commit(t)
         \/ edit_customer_commit(t)
         \/ delete_customer_flush(t)
         \/ delete_customer_commit(t)
         \/ add_sale_commit(t)
         \/ edit_sale_flush(t)
         \/ edit_sale_commit(t)
         \/ delete_sale_commit(t)
         \/ log_activity(t)
         \/ Return(t)

SeqSpec == SeqInit /\ [][SeqNext]_vars

\* the sales ledger alone, its requests served by concurrent worker threads
SaleInit == InitWith(MaxSaleLog)

SaleNext ==
    \E t \in Threads :
         \/ add_material(t)
         \/ add_customer(t)
         \/ add_sale(t)
         \/ edit_sale(t)
         \/ delete_sale(t)
         \/ add_material_commit(t)
         \/ add_sale_commit(t)
         \/ edit_sale_flush(t)
         \/ edit_sale_commit(t)
         \/ delete_sale_commit(t)
         \/ log_activity(t)
         \/ Return(t)

SaleSpec == SaleInit /\ [][SaleNext]_vars

\* sales recorded by concurrent worker threads, nothing else
RecordNext ==
    \E t \in Threads :
         \/ add_material(t)
         \/ add_customer(t)
         \/ add_sale(t)
         \/ add_material_commit(t)
         \/ add_sale_commit(t)
         \/ log_activity(t)
         \/ Return(t)

RecordSpec == SaleInit /\ [][RecordNext]_vars

\* ------------------------------------------------------------- claims
\* steps of a thread, as seen in a transition
Arrives(t, o) == req[t].pc = "idle" /\ req'[t].pc # "idle" /\ req'[t].op = o
Commits(t, o) == At(t, "commit", o) /\ req'[t].pc = "log"

\* C1: a sale that is recorded, updated any number of times and deleted, with no
\* other change to its material in between, leaves the material's total_quantity
\* as it was before the sale was recorded
C1_LifecycleStockNeutral == \A e \in ended : e.after = e.before

C1_Witness == \E e \in ended : e.updates >= 1 /\ e.before > 0

\* C2: add_sale on an existing material with quantity_sold > total_quantity is
\* answered 400 (insufficient stock) and changes no table, no debt and no log
C2_InsufficientStockRejected ==
    [][\A t \in Threads :
         (/\ Arrives(t, "add_sale")
          /\ req'[t].a # None
          /\ req'[t].a.quantity_sold > materials[req'[t].a.material_id].total_quantity)
         => /\ req'[t].pc = "done"
            /\ req'[t].status = "400"
            /\ UNCHANGED <<db, logs>>]_vars

C2_Witness ==
    \E t \in Threads :
        /\ req[t].pc = "done" /\ req[t].op = "add_sale" /\ req[t].status = "400"
        /\ req[t].a.material_id \in DOMAIN materials
        /\ materials[req[t].a.material_id].total_quantity = 1
        /\ req[t].a.quantity_sold = 2

\* C3: when an add_sale commits its deduction, the stock of the material at that
\* moment covers the quantity sold: concurrent sales cannot sell the same stock twice
C3_NoOversell ==
    [][\A t \in Threads :
         (Commits(t, "add_sale") /\ req[t].a.quantity_sold > 0)
         => materials[req[t].a.material_id].total_quantity >= req[t].a.quantity_sold]_vars

\* C4: a sale that is stored has its audit entry, or the request that stored it is
\* still about to write it
Audited(sid) == \E i \in 1..Len(logs) :
    logs[i].action_type = "SALE" /\ logs[i].table_name = "sales" /\ logs[i].record_id = sid
BeingAudited(sid) == \E t \in Threads :
    At(t, "log", "add_sale") /\ req[t].l.log.record_id = sid
C4_MutationAndAuditTogether ==
    \A sid \in DOMAIN sales : Audited(sid) \/ BeingAudited(sid)

\* C5: a handler that ends successfully has added exactly one audit entry, whose
\* table_name and record_id name a record it wrote
C5_OneMatchingEntry ==
    [][\A t \in Threads :
         (req[t].pc = "log" /\ req'[t].pc = "idle")
         => /\ Len(logs') = Len(logs) + 1
            /\ logs'[Len(logs')].table_name = req[t].l.touched.table
            /\ logs'[Len(logs')].record_id \in req[t].l.touched.ids]_vars

\* C6: no two materials have the same (name, type, supplier)
C6_UniqueMaterial ==
    \A k \in MaterialKeys : Cardinality(MaterialsWith(k)) <= 1

\* C7: every roll references a stored material, and delete_material removes exactly
\* the rolls of the deleted material
NoOrphanRoll == \A r \in DOMAIN rolls : rolls[r].material_id \in DOMAIN materials
CascadeExact ==
    \A t \in Threads :
        Commits(t, "delete_material")
        => LET id == req[t].a.id IN
           /\ id \notin DOMAIN materials'
           /\ \A r \in DOMAIN rolls :
                IF rolls[r].material_id = id
                THEN r \notin DOMAIN rolls'
                ELSE r \in DOMAIN rolls' /\ rolls'[r] = rolls[r]
           /\ DOMAIN rolls' \subseteq DOMAIN rolls
C7_NoOrphanRolls == [](NoOrphanRoll) /\ [][CascadeExact]_vars

C7_Witness ==
    \E t \in Threads :
        /\ At(t, "log", "delete_material")
        /\ req[t].l.touched.rolls # {}
        /\ rolls # Empty

\* C8: edit_sale with a new quantity on a stored sale of a stored material is always
\* carried out, whatever the quantity, and sets the sale's quantity_sold to it and
\* total_quantity to total_quantity + old quantity_sold - new quantity
C8_UpdateIsPureDelta ==
    [][\A t \in Threads :
         /\ Arrives(t, "edit_sale") /\ req'[t].pc = "done" => req'[t].status = "404"
         /\ At(t, "flush", "edit_sale") /\ req[t].l.material_id \in DOMAIN materials
               => req'[t].pc = "commit"
         /\ (At(t, "commit", "edit_sale") /\ req'[t] # req[t]
             /\ req[t].a.quantity_sold # Absent)
            => LET sid == req[t].a.id
                   mid == sales[sid].material_id
                   new == req[t].a.quantity_sold[1]
               IN  /\ req'[t].pc = "log"
                   /\ sales'[sid].quantity_sold = new
                   /\ materials'[mid].total_quantity =
                        materials[mid].total_quantity + sales[sid].quantity_sold - new]_vars

C8_Witness ==
    \E t \in Threads :
        /\ At(t, "log", "edit_sale")
        /\ req[t].a.id \in DOMAIN sales
        /\ sales[req[t].a.id].material_id \in DOMAIN materials
        /\ materials[sales[req[t].a.id].material_id].total_quantity < 0

\* C9: the debt of every stored customer is the sum of the amounts due of the sales
\* committed against it since it was created
C9_DebtIsSumOfAmountsDue ==
    \A c \in DOMAIN customers : customers[c].debt = credited[c]

\* C10: the audit log only grows, and an entry once written never changes
C10_AppendOnly ==
    [][/\ Len(logs') >= Len(logs)
       /\ \A i \in 1..Len(logs) : logs'[i] = logs[i]]_vars

C10_Witness ==
    /\ Len(logs) >= 2
    /\ logs[1].timestamp < logs[2].timestamp
    /\ logs[1].record_id = logs[2].record_id

\* C11: add_rolls on a stored material adds exactly one roll per quantity given, each
\* referencing that material, and changes no other roll; no step of add_rolls,
\* update_roll or delete_roll changes the materials or any total_quantity
RollOps == {"add_rolls", "update_roll", "delete_roll"}
C11_RollsLeaveStockAlone ==
    [][\A t \in Threads :
         /\ (/\ Commits(t, "add_rolls")
             /\ req[t].l.mid \in DOMAIN materials
             /\ materials[req[t].l.mid].name = req[t].a.key.name
             /\ materials[req[t].l.mid].type = req[t].a.key.type)
            => LET qs == req[t].a.quantities
                   first == NextId(rolls)
               IN  /\ DOMAIN rolls' = DOMAIN rolls \cup (first .. (first + Len(qs) - 1))
                   /\ Cardinality(DOMAIN rolls') = Cardinality(DOMAIN rolls) + Len(qs)
                   /\ \A i \in 1..Len(qs) :
                        rolls'[first + i - 1] = [material_id |-> req[t].l.mid,
                                                 quantity |-> qs[i]]
                   /\ \A r \in DOMAIN rolls : rolls'[r] = rolls[r]
         /\ (req'[t] # req[t] /\ (req[t].op \in RollOps \/ req'[t].op \in RollOps))
            => /\ DOMAIN materials' = DOMAIN materials
               /\ \A m \in DOMAIN materials :
                    materials'[m].total_quantity = materials[m].total_quantity]_vars

C11_Witness ==
    \E t \in Threads :
        /\ At(t, "log", "add_rolls")
        /\ Cardinality(req[t].l.touched.ids) = 2
        /\ \A r \in req[t].l.touched.ids :
             r \in DOMAIN rolls /\ rolls[r].material_id \in DOMAIN materials
        /\ \E m \in DOMAIN materials : materials[m].total_quantity # 0

\* ------------------------------------------------------------- audit listing
\* ORDER BY timestamp DESC over a listing of row ids (the ids are the positions in logs)
OrderedByTimestampDesc(ls) ==
    \A a, b \in 1..Len(ls) : a < b => logs[ls[a]].timestamp >= logs[ls[b]].timestamp

\* get_logs: every row once, ordered by timestamp alone.  SQL leaves the order of
\* rows with equal timestamps open (SQLite returns them in rowid order, oldest
\* first): the possible answers are all the listings the ORDER BY admits
get_logs ==
    { ls \in [1..Len(logs) -> 1..Len(logs)] :
        /\ \A a, b \in 1..Len(logs) : a # b => ls[a] # ls[b]
        /\ OrderedByTimestampDesc(ls) }

\* C12: in the audit listing an entry appended later comes before every entry
\* appended earlier, entries with equal timestamps included
C12_ListedNewestFirst ==
    \A ls \in get_logs : \A a, b \in 1..Len(logs) : a < b => ls[a] > ls[b]

\* C13: the step in which add_sale commits stores the sale, the deducted
\* total_quantity and, for a known customer with amount_due given, the raised debt,
\* all three at once; an add_sale whose commit fails changes no table
C13_SaleAppliedAsOneUnit ==
    [][\A t \in Threads :
         /\ Commits(t, "add_sale")
            => LET a == req[t].a
                   sid == NextId(sales)
               IN  /\ DOMAIN sales' = DOMAIN sales \cup {sid}
                   /\ sid \notin DOMAIN sales
                   /\ sales'[sid] = [material_id |-> a.material_id,
                                     customer_id |-> a.customer_id,
                                     quantity_sold |-> a.quantity_sold,
                                     price |-> a.price]
                   /\ a.quantity_sold # 0
                        => /\ a.material_id \in DOMAIN materials'
                           /\ materials'[a.material_id].total_quantity =
                                req[t].l.old_tq - a.quantity_sold
                   /\ req[t].l.pays
                        => /\ a.customer_id \in DOMAIN customers'
                           /\ customers'[a.customer_id].debt =
                                req[t].l.old_debt + a.amount_due[1]
         /\ (At(t, "commit", "add_sale") /\ req'[t].pc = "done")
            => UNCHANGED db
         /\ (sales' # sales /\ DOMAIN sales \subseteq DOMAIN sales'
             /\ DOMAIN sales' # DOMAIN sales)
            => \E u \in Threads : Commits(u, "add_sale")]_vars

C13_Witness ==
    \E t \in Threads :
        /\ At(t, "log", "add_sale")
        /\ req[t].a.amount_due # Absent
        /\ req[t].a.customer_id \in DOMAIN customers
        /\ customers[req[t].a.customer_id].debt > 0
        /\ req[t].a.material_id \in DOMAIN materials
        /\ materials[req[t].a.material_id].total_quantity # 0

\* C14: a request answered 404 (not found) changes no material, roll, customer or
\* sale and adds no audit entry, neither in the step that refuses it nor in the
\* step that sends the answer, after which the worker is idle
C14_NotFoundChangesNothing ==
    [][\A t \in Threads :
         /\ (req'[t] # req[t] /\ req'[t].status = "404")
            => /\ req[t].pc = "idle"
               /\ req'[t].pc = "done"
               /\ UNCHANGED <<db, logs>>
         /\ (req'[t] # req[t] /\ req[t].status = "404")
            => /\ req'[t].pc = "idle"
               /\ UNCHANGED <<db, logs>>]_vars

C14_Witness ==
    \E t \in Threads :
        /\ req[t].pc = "done" /\ req[t].status = "404" /\ req[t].op = "delete_sale"
        /\ DOMAIN sales # {}
        /\ Len(logs) >= 1

\* C15: delete_customer on a stored customer is carried out whether or not sales
\* reference the customer; it removes the customer and no sale, and leaves every
\* sale's quantity_sold and price and every material as they were
C15_DeleteCustomerKeepsSales ==
    [][\A t \in Threads :
         /\ (Arrives(t, "delete_customer") /\ req'[t].pc = "done")
            => req'[t].status = "404"
         /\ (At(t, "flush", "delete_customer") /\ req'[t] # req[t])
            => req'[t].pc = "commit"
         /\ (At(t, "commit", "delete_customer") /\ req'[t] # req[t])
            => /\ req'[t].pc = "log"
               /\ req[t].a.id \notin DOMAIN customers'
         /\ (req'[t] # req[t] /\ "delete_customer" \in {req[t].op, req'[t].op})
            => /\ DOMAIN sales' = DOMAIN sales
               /\ \A s \in DOMAIN sales :
                    /\ sales'[s].quantity_sold = sales[s].quantity_sold
                    /\ sales'[s].price = sales[s].price
               /\ materials' = materials]_vars

C15_Witness ==
    \E t \in Threads :
        /\ At(t, "log", "delete_customer")
        /\ req[t].l.touched.purchases # {}
        /\ req[t].l.touched.purchases \subseteq DOMAIN sales
        /\ \E m \in DOMAIN materials : materials[m].total_quantity # 0

\* the quantity_sold of the given sales, added up
RECURSIVE SumSold(_)
SumSold(S) ==
    IF S = {} THEN 0
    ELSE LET s == CHOOSE x \in S : TRUE
         IN  sales[s].quantity_sold + SumSold(S \ {s})

\* what a material holds and what its stored sales have taken from it
StockAndSold(m) == materials[m].total_quantity + SumSold(SalesOf(m))

\* C16: with requests served one after the other, total_quantity plus the
\* quantity_sold of the stored sales of a material keeps the value it had when the
\* material was created (0), in every state
C16_StockConserved == \A m \in DOMAIN materials : StockAndSold(m) = 0

C16_Witness ==
    \E t \in Threads :
        /\ At(t, "log", "edit_sale")
        /\ req[t].a.quantity_sold # Absent
        /\ \E m \in DOMAIN materials :
             /\ Cardinality(SalesOf(m)) >= 2
             /\ req[t].a.id \in SalesOf(m)
             /\ materials[m].total_quantity # 0

\* C17: whenever no request is in progress, every material's total_quantity plus the
\* quantity_sold of its stored sales has the value it had before the requests
\* started (0 since the material's creation), however the add_sale, edit_sale and
\* delete_sale requests were interleaved
C17_NoAdjustmentLost ==
    (\A t \in Threads : req[t].pc = "idle")
    => \A m \in DOMAIN materials : StockAndSold(m) = 0

\* C18: every stored sale references a stored material
C18_SalesReferenceMaterials ==
    \A s \in DOMAIN sales : sales[s].material_id \in DOMAIN materials

\* C19: a material is created with total_quantity 0, and the only steps that raise
\* the total_quantity of a material are the commits of edit_sale and delete_sale
C19_OnlySaleChangesRaiseStock ==
    [][/\ \A t \in Threads :
            Commits(t, "add_material")
            => \A m \in DOMAIN materials' \ DOMAIN materials :
                 materials'[m].total_quantity = 0
       /\ \A m \in DOMAIN materials \cap DOMAIN materials' :
            materials'[m].total_quantity > materials[m].total_quantity
            => \E t \in Threads : Commits(t, "edit_sale") \/ Commits(t, "delete_sale")]_vars

====
